---- MODULE Spec2Model ----
(***************************************************************************)
(* evaluate_pipeline.py: the alignment engine (compute_measures_local),    *)
(* the reference resolver (build_reference_map), the hypothesis collector  *)
(* (collect_hypotheses_by_model) and the per-pair part of main.            *)
(*                                                                         *)
(* Python lists are 0-based, TLA+ sequences 1-based: the code's r[i-1] is   *)
(* r[i] here, while the table dp keeps the code's indices 0..n and 0..m.    *)
(***************************************************************************)
EXTENDS Integers, Sequences, FiniteSets, TLC

\* ------------------------------------------------------------------ bounds
MaxLen == 3
Tokens == {"a", "b", "c"}
TokenSeqs == UNION {[1..k -> Tokens] : k \in 0..MaxLen}

\* directory contents are drawn from these names, at most MaxSampleFiles
\* (samples dir) and MaxOutFiles (output dir) at a time
MaxSampleFiles == 5
MaxOutFiles == 3

SampleNames ==
    {"x_ref.token.txt", "x_reference.token.txt", "x_ref.txt",
     "y_ref.token.txt", "y_reference.token.txt", "y_ref.txt",
     "x_ref_ref.txt", "x.txt", ".x_ref.txt"}

OutNames ==
    {"x_m1.txt", "x_m1.token.txt", "x_m2.txt", "x_M2.token.txt",
     "x_times.txt", "x_m1_eval.txt", "x_m1.TXT", "x_ref.txt",
     "x_y_m1.txt", "y_m1.token.txt", "x_m1_alignment.csv", "x_y_eval.txt"}

Basenames == {"x", "x_y"}

BoundedSubsets(S, k) == {T \in SUBSET S : Cardinality(T) <= k}

\* ------------------------------------------------------------------- state
VARIABLES
    pc,          \* position in compute_measures_local / main's loop body
    r, h,        \* ref_tokens, hyp_tokens
    dp,          \* the (n+1) x (m+1) cost table
    i, j,        \* the backtrace cursor
    subs, ins, dels, hits,
    alignment,   \* list of (ref_token, hyp_token, op)
    measures,    \* the dict compute_measures_local returns
    row,         \* the summary row main builds from measures
    \* build_reference_map
    rpc,           \* position in build_reference_map
    samplesIsDir,  \* os.path.isdir(samples_dir)
    samplesFiles,  \* the names in samples_dir
    refTodo,       \* what the current glob() has still to yield
    refs,          \* basename -> chosen reference path
    \* collect_hypotheses_by_model
    hpc,           \* position in collect_hypotheses_by_model
    outIsDir,      \* os.path.isdir(out_dir)
    outFiles,      \* the names in out_dir
    basename,      \* the sample identifier asked for
    listing,       \* os.listdir(out_dir), in the order the OS gives
    hypQueue,      \* sorted(listing), what the loop has still to visit
    candidates,    \* model_name -> chosen hypothesis path
    \* run_full_pipeline.main
    ppc,           \* position in run_full_pipeline.main
    skip_stt,      \* args.skip_stt
    pSamplesIsDir, \* os.path.isdir(samples_dir) as the orchestrator sees it
    audio_files,   \* find_audio_files(): the inputs of the STT stage
    out_dirs,      \* detect_output_dirs_recursive(): the output directories
    cmdLog,        \* the commands run_cmd started, each with its outcome
    pExit,         \* the orchestrator's exit status, None while it runs
    \* evaluate_pipeline.main
    mpc,           \* position in evaluate_pipeline.main
    mSamplesIsDir, \* os.path.isdir(samples_dir) as the evaluator sees it
    mOutIsDir,     \* os.path.isdir(out_dir) as the evaluator sees it
    mSamples,      \* the names in samples_dir
    mOut,          \* the names in out_dir, growing as reports are written
    unreadable,    \* the paths whose open() raises
    content,       \* path -> the tokens read_tokens finds in the file
    ref_map,       \* basename -> reference path
    todoSamples,   \* what the loop over sorted(ref_map.keys()) has still to visit
    curSample,     \* the basename of the current outer iteration
    todoModels,    \* what the loop over sorted(hyps_by_model.items()) has still to visit
    summary_map,   \* (basename, model_name) -> summary row
    summaryFile,   \* the rows of evaluation_summary.csv, None while not written
    summaryWrites, \* how many times evaluation_summary.csv was written
    stdout,        \* the Warning / Evaluated lines printed so far
    reports,       \* the report files written so far, each with the pair it is for
    exitStatus,    \* the evaluator's exit status, None while it runs
    \* evaluate_pipeline.py run again over the same directories
    run,           \* 1 in the first run of the evaluator, 2 in the second
    firstRun       \* the (sample, model, hypothesis) tuples of the first run

alignVars == <<pc, r, h, dp, i, j, subs, ins, dels, hits, alignment, measures, row>>
refVars == <<rpc, samplesIsDir, samplesFiles, refTodo, refs>>
hypVars == <<hpc, outIsDir, outFiles, basename, listing, hypQueue, candidates>>
pipeVars == <<ppc, skip_stt, pSamplesIsDir, audio_files, out_dirs, cmdLog, pExit>>
mainVars == <<mpc, mSamplesIsDir, mOutIsDir, mSamples, mOut, unreadable, content, ref_map,
              todoSamples, curSample, todoModels, summary_map, summaryFile,
              summaryWrites, stdout, reports, exitStatus>>

rerunVars == <<run, firstRun>>

vars == <<alignVars, refVars, hypVars, pipeVars, mainVars, rerunVars>>

notAlignVars == <<refVars, hypVars, pipeVars, mainVars, rerunVars>>
notRefVars == <<alignVars, hypVars, pipeVars, mainVars, rerunVars>>
notHypVars == <<alignVars, refVars, pipeVars, mainVars, rerunVars>>
notPipeVars == <<alignVars, refVars, hypVars, mainVars, rerunVars>>
notMainVars == <<alignVars, refVars, hypVars, pipeVars, rerunVars>>

None == "None"

\* ------------------------------------------------------- str and os.path
\* the characters of the file names, in code point order
Ascii == ".0123456789ABCDEFGHIJKLMNOPQRSTUVWXYZ_abcdefghijklmnopqrstuvwxyz"
FirstUpper == 12
LastUpper == 37
UpperToLower == 27

CharAt(s, k) == SubSeq(s, k, k)
Chars == {CharAt(Ascii, k) : k \in 1..Len(Ascii)}
OrdTable == [c \in Chars |-> CHOOSE k \in 1..Len(Ascii) : CharAt(Ascii, k) = c]
LowerTable ==
    [c \in Chars |->
        IF OrdTable[c] >= FirstUpper /\ OrdTable[c] <= LastUpper
        THEN CharAt(Ascii, OrdTable[c] + UpperToLower) ELSE c]
Ord(c) == OrdTable[c]

\* s.endswith(suf), s.startswith(pre), sub in s
EndsWith(s, suf) ==
    Len(s) >= Len(suf) /\ SubSeq(s, Len(s) - Len(suf) + 1, Len(s)) = suf
StartsWith(s, pre) ==
    Len(s) >= Len(pre) /\ SubSeq(s, 1, Len(pre)) = pre
Contains(s, sub) ==
    \E k \in 1..(Len(s) - Len(sub) + 1) : SubSeq(s, k, k + Len(sub) - 1) = sub

\* s[:-n] and s[n:]
DropLast(s, n) == SubSeq(s, 1, Len(s) - n)
DropFirst(s, n) == SubSeq(s, n + 1, Len(s))

\* s.lower()
LowerChar(c) == LowerTable[c]
RECURSIVE Lower(_)
Lower(s) == IF Len(s) = 0 THEN "" ELSE LowerChar(CharAt(s, 1)) \o Lower(DropFirst(s, 1))

\* a < b for str: the first differing character decides, a proper prefix is less
RECURSIVE StrLess(_, _)
StrLess(a, b) ==
    IF Len(b) = 0 THEN FALSE
    ELSE IF Len(a) = 0 THEN TRUE
    ELSE IF CharAt(a, 1) = CharAt(b, 1) THEN StrLess(DropFirst(a, 1), DropFirst(b, 1))
    ELSE Ord(CharAt(a, 1)) < Ord(CharAt(b, 1))

\* sorted(names)
Sorted(names) == SortSeq(names, StrLess)

\* os.path.join(d, name)
Join(d, name) == d \o "/" \o name

\* os.path.splitext(fname)[0]: cut at the last dot, unless only leading dots
RECURSIVE LeadingDots(_)
LeadingDots(s) ==
    IF Len(s) > 0 /\ CharAt(s, 1) = "." THEN 1 + LeadingDots(DropFirst(s, 1)) ELSE 0
SplitExtRoot(fname) ==
    LET dots == {k \in (LeadingDots(fname) + 1)..Len(fname) : CharAt(fname, k) = "."}
    IN  IF dots = {} \/ LeadingDots(fname) = Len(fname) THEN fname
        ELSE SubSeq(fname, 1, (CHOOSE k \in dots : \A l \in dots : l <= k) - 1)

\* dict[key] = value
Put(d, key, value) ==
    [k \in DOMAIN d \cup {key} |-> IF k = key THEN value ELSE d[k]]
EmptyDict == <<>>

SamplesDir == "samples"
OutDir == "out"

\* ------------------------------------------------------ build_reference_map
REF_TOKEN_SUFFIXES == <<"_ref.token.txt", "_reference.token.txt", "_ref.txt">>

\* _basename_from_ref_filename: the first suffix of the tuple that matches
BasenameFromRefFilename(fname) ==
    LET hit == {k \in 1..Len(REF_TOKEN_SUFFIXES) : EndsWith(fname, REF_TOKEN_SUFFIXES[k])}
    IN  IF hit = {} THEN SplitExtRoot(fname)
        ELSE DropLast(fname, Len(REF_TOKEN_SUFFIXES[CHOOSE k \in hit : \A l \in hit : k <= l]))

\* glob(os.path.join(samples_dir, "*" + suffix)): the names ending in suffix;
\* "*" does not match a leading dot
Glob(files, suffix) ==
    {f \in files : EndsWith(f, suffix) /\ ~StartsWith(f, ".")}

\* the patterns of the three passes
PassPattern(pass) ==
    CASE pass = "pass1" -> "_ref.token.txt"
      [] pass = "pass2" -> "_reference.token.txt"
      [] pass = "pass3" -> "_ref.txt"

NextPass(pass) ==
    CASE pass = "pass1" -> "pass2"
      [] pass = "pass2" -> "pass3"
      [] pass = "pass3" -> "done"

\* mutant: the later passes assign like the first, without `if b not in refs`
RefRecordUnguarded(d, pass, name) ==
    Put(d, BasenameFromRefFilename(name), Join(SamplesDir, name))

\* the loop body of a pass for the name the glob yields
RefRecord(d, pass, name) ==
    LET b == BasenameFromRefFilename(name)
        p == Join(SamplesDir, name)
    IN  IF pass = "pass1" THEN Put(d, b, p)
        ELSE IF b \notin DOMAIN d THEN Put(d, b, p)
        ELSE d

\* ---------------------------------------------- collect_hypotheses_by_model
\* the `skip obvious ref files` test
IsRefFile(fname) ==
    \/ EndsWith(fname, "_ref.token.txt")
    \/ EndsWith(fname, "_reference.token.txt")
    \/ EndsWith(fname, "_ref.txt")

\* the times/eval exclusion on the lower-cased raw model name
TimesOrEval(rm_lower) ==
    \/ rm_lower = "times"
    \/ EndsWith(rm_lower, "_times")
    \/ StartsWith(rm_lower, "times")
    \/ Contains(rm_lower, "_times")
    \/ Contains(rm_lower, "_eval")
    \/ rm_lower = "time"

\* mutant: a raw artifact is recorded like a tokenized one, unconditionally
HypRecordRawOverwrites(d, model_name, is_tokenized, fname) ==
    Put(d, model_name, Join(OutDir, fname))

\* mutant: a tokenized artifact, too, is recorded only for a model not yet seen
HypRecordFirstWins(d, model_name, is_tokenized, fname) ==
    IF model_name \notin DOMAIN d THEN Put(d, model_name, Join(OutDir, fname)) ELSE d

\* lines 90-95: prefer tokenized form
HypRecord(d, model_name, is_tokenized, fname) ==
    IF is_tokenized THEN Put(d, model_name, Join(OutDir, fname))
    ELSE IF model_name \notin DOMAIN d THEN Put(d, model_name, Join(OutDir, fname))
    ELSE d

\* lines 84-95: exclusion, then selection
HypConsider(d, raw_model_name, is_tokenized, fname) ==
    IF TimesOrEval(Lower(raw_model_name)) THEN d
    ELSE HypRecord(d, raw_model_name, is_tokenized, fname)

\* lines 63-95: the loop body for one name of the listing
HypLoopBody(d, prefix, fname) ==
    IF ~EndsWith(Lower(fname), ".txt") THEN d
    ELSE IF ~StartsWith(fname, prefix) THEN d
    ELSE IF IsRefFile(fname) THEN d
    ELSE LET model_part == DropFirst(fname, Len(prefix))
         IN  IF EndsWith(model_part, ".token.txt")
             THEN HypConsider(d, DropLast(model_part, Len(".token.txt")), TRUE, fname)
             ELSE IF EndsWith(model_part, ".txt")
             THEN HypConsider(d, DropLast(model_part, Len(".txt")), FALSE, fname)
             ELSE d

\* the loop over a sequence of names
RECURSIVE HypLoop(_, _, _)
HypLoop(d, prefix, names) ==
    IF names = <<>> THEN d
    ELSE HypLoop(HypLoopBody(d, prefix, Head(names)), prefix, Tail(names))

\* the orders os.listdir may give the names of a directory in
Listings(files) ==
    {s \in [1..Cardinality(files) -> files] : \A a, b \in DOMAIN s : a # b => s[a] # s[b]}

\* --------------------------------------------------- compute_measures_local
\* mutant: the comparison inverted
CellCostInverted(a, b) == IF a = b THEN 1 ELSE 0

\* mutant: every pair of tokens costs one, equal or not
CellCostAlwaysOne(a, b) == 1

\* cost = 0 if r[i-1] == h[j-1] else 1
CellCost(a, b) == IF a = b THEN 0 ELSE 1

Min3(x, y, z) ==
    IF x <= y /\ x <= z THEN x ELSE IF y <= z THEN y ELSE z

\* mutant: the two border loops left out, the table stays all zero
InitTableNoBorders(n, m) == [a \in 0..n |-> [b \in 0..m |-> 0]]

\* dp = [[0]*(m+1) ...]; dp[i][0] = i; dp[0][j] = j
InitTable(n, m) ==
    [a \in 0..n |-> [b \in 0..m |-> IF b = 0 THEN a ELSE IF a = 0 THEN b ELSE 0]]

\* min(...) of a non-empty set of numbers
Least(S) == CHOOSE x \in S : \A y \in S : x <= y

\* the inner loop for row a, all its cells at once. dp[a][b-1], the value the
\* loop has just stored to the left of cell (a, b), is the least of the
\* values that came from the row above, each carried rightwards at one per
\* column; the recursion over b is unrolled, its depth being the length of
\* the hypothesis
FillRow(t, rr, hh, a) ==
    LET above(k) ==
            IF k = 0 THEN t[a][0]
            ELSE Least({t[a-1][k] + 1, t[a-1][k-1] + CellCost(rr[a], hh[k])})
        left(b) == Least({above(k) + (b - 1 - k) : k \in 0..(b - 1)})
    IN  [b \in 0..Len(hh) |->
            IF b = 0 THEN t[a][0]
            ELSE Min3(t[a-1][b] + 1, left(b) + 1,
                      t[a-1][b-1] + CellCost(rr[a], hh[b]))]

\* the outer loop, from row a on
RECURSIVE FillRows(_, _, _, _)
FillRows(t, rr, hh, a) ==
    IF a > Len(rr) THEN t
    ELSE FillRows([t EXCEPT ![a] = FillRow(t, rr, hh, a)], rr, hh, a + 1)

BuildTable(rr, hh) == FillRows(InitTable(Len(rr), Len(hh)), rr, hh, 1)

\* mutant: deletion tried before insertion
WalkBranchDeletionFirst(t, rr, hh, a, b) ==
    IF a > 0 /\ b > 0 /\ t[a][b] = t[a-1][b-1] /\ rr[a] = hh[b] THEN "OK"
    ELSE IF a > 0 /\ t[a][b] = t[a-1][b] + 1 THEN "D"
    ELSE IF b > 0 /\ t[a][b] = t[a][b-1] + 1 THEN "I"
    ELSE IF a > 0 /\ b > 0 /\ t[a][b] = t[a-1][b-1] + 1 THEN "S"
    ELSE IF a > 0 THEN "FD"
    ELSE IF b > 0 THEN "FI"
    ELSE "none"

\* mutant: the insertion branch tried before the match branch
WalkBranchInsertionFirst(t, rr, hh, a, b) ==
    IF b > 0 /\ t[a][b] = t[a][b-1] + 1 THEN "I"
    ELSE IF a > 0 /\ b > 0 /\ t[a][b] = t[a-1][b-1] /\ rr[a] = hh[b] THEN "OK"
    ELSE IF a > 0 /\ t[a][b] = t[a-1][b] + 1 THEN "D"
    ELSE IF a > 0 /\ b > 0 /\ t[a][b] = t[a-1][b-1] + 1 THEN "S"
    ELSE IF a > 0 THEN "FD"
    ELSE IF b > 0 THEN "FI"
    ELSE "none"

\* which branch of the if/elif chain of the backtrace loop is taken at (a, b)
WalkBranch(t, rr, hh, a, b) ==
    IF a > 0 /\ b > 0 /\ t[a][b] = t[a-1][b-1] /\ rr[a] = hh[b] THEN "OK"
    ELSE IF b > 0 /\ t[a][b] = t[a][b-1] + 1 THEN "I"
    ELSE IF a > 0 /\ t[a][b] = t[a-1][b] + 1 THEN "D"
    ELSE IF a > 0 /\ b > 0 /\ t[a][b] = t[a-1][b-1] + 1 THEN "S"
    ELSE IF a > 0 THEN "FD"
    ELSE IF b > 0 THEN "FI"
    ELSE "none"

\* the operation tag a branch appends (the safety fallback appends D or I)
BranchOp(br) == IF br = "FD" THEN "D" ELSE IF br = "FI" THEN "I" ELSE br

\* the loop condition: while i > 0 or j > 0
WalkPending(a, b) == a > 0 \/ b > 0

\* mutant: the substitution branch forgets `j -= 1`
ApplyOpSubKeepsJ(rr, hh, w, op) ==
        CASE op = "OK" ->
               [w EXCEPT !.alignment = Append(@, <<rr[w.i], hh[w.j], "OK">>),
                         !.hits = @ + 1, !.i = @ - 1, !.j = @ - 1]
          [] op = "I" ->
               [w EXCEPT !.alignment = Append(@, <<"", hh[w.j], "I">>),
                         !.ins = @ + 1, !.j = @ - 1]
          [] op = "D" ->
               [w EXCEPT !.alignment = Append(@, <<rr[w.i], "", "D">>),
                         !.dels = @ + 1, !.i = @ - 1]
          [] op = "S" ->
               [w EXCEPT !.alignment = Append(@, <<rr[w.i], hh[w.j], "S">>),
                         !.subs = @ + 1, !.i = @ - 1]
          [] OTHER -> w

\* mutant: the insertion branch forgets `j -= 1`
ApplyOpInsKeepsJ(rr, hh, w, op) ==
        CASE op = "OK" ->
               [w EXCEPT !.alignment = Append(@, <<rr[w.i], hh[w.j], "OK">>),
                         !.hits = @ + 1, !.i = @ - 1, !.j = @ - 1]
          [] op = "I" ->
               [w EXCEPT !.alignment = Append(@, <<"", hh[w.j], "I">>),
                         !.ins = @ + 1]
          [] op = "D" ->
               [w EXCEPT !.alignment = Append(@, <<rr[w.i], "", "D">>),
                         !.dels = @ + 1, !.i = @ - 1]
          [] op = "S" ->
               [w EXCEPT !.alignment = Append(@, <<rr[w.i], hh[w.j], "S">>),
                         !.subs = @ + 1, !.i = @ - 1, !.j = @ - 1]
          [] OTHER -> w

\* the body of the branch emitting op, on the walk state w
ApplyOp(rr, hh, w, op) ==
        CASE op = "OK" ->
               [w EXCEPT !.alignment = Append(@, <<rr[w.i], hh[w.j], "OK">>),
                         !.hits = @ + 1, !.i = @ - 1, !.j = @ - 1]
          [] op = "I" ->
               [w EXCEPT !.alignment = Append(@, <<"", hh[w.j], "I">>),
                         !.ins = @ + 1, !.j = @ - 1]
          [] op = "D" ->
               [w EXCEPT !.alignment = Append(@, <<rr[w.i], "", "D">>),
                         !.dels = @ + 1, !.i = @ - 1]
          [] op = "S" ->
               [w EXCEPT !.alignment = Append(@, <<rr[w.i], hh[w.j], "S">>),
                         !.subs = @ + 1, !.i = @ - 1, !.j = @ - 1]
          [] OTHER -> w

\* one iteration of the backtrace loop on the walk state w
WalkStep(t, rr, hh, w) ==
    ApplyOp(rr, hh, w, BranchOp(WalkBranch(t, rr, hh, w.i, w.j)))

\* mutant: the trace is left in walk order
ReverseForgotten(s) == s

\* alignment.reverse()
RECURSIVE Reverse(_)
Reverse(s) == IF s = <<>> THEN <<>> ELSE Append(Reverse(Tail(s)), Head(s))

\* mutant: insertions left out of the numerator
WerNoInsertions(s, n, d, truth_len) ==
    IF truth_len > 0 THEN [num |-> s + d, den |-> truth_len]
    ELSE [num |-> 0, den |-> 1]

\* mutant: the quotient taken without the truth_len > 0 guard
WerUnguarded(s, n, d, truth_len) == [num |-> s + n + d, den |-> truth_len]

\* wer = (subs + ins + dels) / truth_len if truth_len > 0 else 0.0
\* a float quotient is kept as the exact fraction num/den; 0.0 is 0/1
Wer(s, n, d, truth_len) ==
    IF truth_len > 0 THEN [num |-> s + n + d, den |-> truth_len]
    ELSE [num |-> 0, den |-> 1]

\* the returned dict
Measures(w, truth_len) ==
    [substitutions |-> w.subs, insertions |-> w.ins, deletions |-> w.dels,
     hits |-> w.hits, truth_length |-> truth_len,
     wer |-> Wer(w.subs, w.ins, w.dels, truth_len),
     alignment |-> Reverse(w.alignment)]

\* main: total_errors and the row recorded for the pair
TotalErrors(ms) == ms.substitutions + ms.insertions + ms.deletions

SummaryRow(ms) ==
    [wer |-> ms.wer, truth_length |-> ms.truth_length,
     total_errors |-> TotalErrors(ms),
     substitutions |-> ms.substitutions, insertions |-> ms.insertions,
     deletions |-> ms.deletions]

\* ----------------------------------------------------------------- actions
\* the walk state held in the variables
Walk == [i |-> i, j |-> j, subs |-> subs, ins |-> ins, dels |-> dels,
         hits |-> hits, alignment |-> alignment]

\* the parts of the program a specification does not exercise stay idle
AlignIdle ==
    /\ pc = "idle"
    /\ r = <<>> /\ h = <<>>
    /\ dp = None
    /\ i = 0 /\ j = 0
    /\ subs = 0 /\ ins = 0 /\ dels = 0 /\ hits = 0
    /\ alignment = <<>>
    /\ measures = None
    /\ row = None

RefIdle ==
    /\ rpc = "idle"
    /\ samplesIsDir = TRUE
    /\ samplesFiles = {}
    /\ refTodo = {}
    /\ refs = EmptyDict

HypIdle ==
    /\ hpc = "idle"
    /\ outIsDir = TRUE
    /\ outFiles = {}
    /\ basename = ""
    /\ listing = <<>>
    /\ hypQueue = <<>>
    /\ candidates = EmptyDict

PipeIdle ==
    /\ ppc = "idle"
    /\ skip_stt = FALSE
    /\ pSamplesIsDir = TRUE
    /\ audio_files = <<>>
    /\ out_dirs = <<>>
    /\ cmdLog = <<>>
    /\ pExit = None

RerunIdle ==
    /\ run = 1
    /\ firstRun = {}

MainIdle ==
    /\ mpc = "idle"
    /\ mSamplesIsDir = TRUE
    /\ mOutIsDir = TRUE
    /\ mSamples = {}
    /\ mOut = {}
    /\ unreadable = {}
    /\ content = EmptyDict
    /\ ref_map = EmptyDict
    /\ todoSamples = <<>>
    /\ curSample = ""
    /\ todoModels = <<>>
    /\ summary_map = EmptyDict
    /\ summaryFile = None
    /\ summaryWrites = 0
    /\ stdout = <<>>
    /\ reports = <<>>
    /\ exitStatus = None

Init ==
    /\ r \in TokenSeqs
    /\ h \in TokenSeqs
    /\ pc = "table"
    /\ dp = None
    /\ i = 0 /\ j = 0
    /\ subs = 0 /\ ins = 0 /\ dels = 0 /\ hits = 0
    /\ alignment = <<>>
    /\ measures = None
    /\ row = None
    /\ RefIdle
    /\ HypIdle
    /\ PipeIdle
    /\ MainIdle
    /\ RerunIdle

\* lines 111-121: build the table, start the walk at (n, m)
FillTable ==
    /\ pc = "table"
    /\ dp' = BuildTable(r, h)
    /\ i' = Len(r) /\ j' = Len(h)
    /\ pc' = "walk"
    /\ UNCHANGED <<r, h, subs, ins, dels, hits, alignment, measures, row, notAlignVars>>

\* lines 123-149: one iteration of the backtrace loop
BacktraceStep ==
    /\ pc = "walk"
    /\ WalkPending(i, j)
    /\ LET w == WalkStep(dp, r, h, Walk)
       IN  /\ i' = w.i /\ j' = w.j
           /\ subs' = w.subs /\ ins' = w.ins /\ dels' = w.dels /\ hits' = w.hits
           /\ alignment' = w.alignment
    /\ UNCHANGED <<pc, r, h, dp, measures, row, notAlignVars>>

\* lines 151-162: the loop has ended; reverse the trace and return the dict
Return ==
    /\ pc = "walk"
    /\ ~WalkPending(i, j)
    /\ measures' = Measures(Walk, Len(r))
    /\ pc' = "returned"
    /\ UNCHANGED <<r, h, dp, i, j, subs, ins, dels, hits, alignment, row, notAlignVars>>

\* main, lines 229-236: the summary row of the pair
RecordRow ==
    /\ pc = "returned"
    /\ row' = SummaryRow(measures)
    /\ pc' = "recorded"
    /\ UNCHANGED <<r, h, dp, i, j, subs, ins, dels, hits, alignment, measures, notAlignVars>>

Next == FillTable \/ BacktraceStep \/ Return \/ RecordRow

Spec == Init /\ [][Next]_vars

\* ------------------------------------------- build_reference_map, stepwise
InitRef ==
    /\ rpc = "start"
    /\ samplesIsDir \in BOOLEAN
    /\ samplesFiles \in BoundedSubsets(SampleNames, MaxSampleFiles)
    /\ samplesIsDir = FALSE => samplesFiles = {}
    /\ refTodo = {}
    /\ refs = EmptyDict
    /\ AlignIdle
    /\ HypIdle
    /\ PipeIdle
    /\ MainIdle
    /\ RerunIdle

\* lines 30-34: refs = {}; not a directory: return refs; else the first glob
RefStart ==
    /\ rpc = "start"
    /\ IF ~samplesIsDir
       THEN rpc' = "done" /\ refTodo' = {}
       ELSE rpc' = "pass1" /\ refTodo' = Glob(samplesFiles, PassPattern("pass1"))
    /\ UNCHANGED <<samplesIsDir, samplesFiles, refs, notRefVars>>

\* one iteration of the for loop of the current pass: glob() gives its
\* matches in no particular order
RefStep ==
    /\ rpc \in {"pass1", "pass2", "pass3"}
    /\ \E name \in refTodo :
          /\ refs' = RefRecord(refs, rpc, name)
          /\ refTodo' = refTodo \ {name}
    /\ UNCHANGED <<rpc, samplesIsDir, samplesFiles, notRefVars>>

\* the pass is exhausted: the next glob, or return refs
RefNextPass ==
    /\ rpc \in {"pass1", "pass2", "pass3"}
    /\ refTodo = {}
    /\ rpc' = NextPass(rpc)
    /\ refTodo' = IF NextPass(rpc) = "done" THEN {}
                  ELSE Glob(samplesFiles, PassPattern(NextPass(rpc)))
    /\ UNCHANGED <<samplesIsDir, samplesFiles, refs, notRefVars>>

NextRef == RefStart \/ RefStep \/ RefNextPass

SpecRef == InitRef /\ [][NextRef]_vars

\* ----------------------------------- collect_hypotheses_by_model, stepwise
InitHyp ==
    /\ hpc = "start"
    /\ outIsDir \in BOOLEAN
    /\ outFiles \in BoundedSubsets(OutNames, MaxOutFiles)
    /\ outIsDir = FALSE => outFiles = {}
    /\ basename \in Basenames
    /\ listing \in Listings(outFiles)
    /\ hypQueue = <<>>
    /\ candidates = EmptyDict
    /\ AlignIdle
    /\ RefIdle
    /\ PipeIdle
    /\ MainIdle
    /\ RerunIdle

\* lines 58-62: candidates = {}; not a directory: return; else sort the listing
HypStart ==
    /\ hpc = "start"
    /\ IF ~outIsDir
       THEN hpc' = "done" /\ hypQueue' = <<>>
       ELSE hpc' = "loop" /\ hypQueue' = Sorted(listing)
    /\ UNCHANGED <<outIsDir, outFiles, basename, listing, candidates, notHypVars>>

\* lines 62-95: one iteration of the for loop
HypStep ==
    /\ hpc = "loop"
    /\ hypQueue # <<>>
    /\ candidates' = HypLoopBody(candidates, basename \o "_", Head(hypQueue))
    /\ hypQueue' = Tail(hypQueue)
    /\ UNCHANGED <<hpc, outIsDir, outFiles, basename, listing, notHypVars>>

\* line 97: return candidates
HypReturn ==
    /\ hpc = "loop"
    /\ hypQueue = <<>>
    /\ hpc' = "done"
    /\ UNCHANGED <<outIsDir, outFiles, basename, listing, hypQueue, candidates,
                   notHypVars>>

NextHyp == HypStart \/ HypStep \/ HypReturn

SpecHyp == InitHyp /\ [][NextHyp]_vars

\* ------------------------------------------------- run_full_pipeline.main
MaxAudio == 3
MaxOutDirs == 2

\* what subprocess.run(cmd, check=True) can meet
Outcomes == {"exit 0", "exit 1", "FileNotFoundError"}

RunCmdUnchecked(outcome) == outcome = "FileNotFoundError"

\* run_cmd: the outcomes that raise out of it
RunCmdRaises(outcome) == outcome # "exit 0"

\* the scripts run for each detected output directory, in order
DownstreamScripts == <<"extract_transcripts.py", "normalize_tokenize.py", "evaluate_pipeline.py">>

Cmd(script, target) == [script |-> script, target |-> target]

\* the commands main starts when none fails
SttCmds(audio) == [k \in 1..Len(audio) |-> Cmd("stt_run.py", audio[k])]
DownstreamCmds(dirs) ==
    [k \in 1..(Len(dirs) * Len(DownstreamScripts)) |->
        Cmd(DownstreamScripts[((k - 1) % Len(DownstreamScripts)) + 1],
            dirs[((k - 1) \div Len(DownstreamScripts)) + 1])]

PipeExit(status) ==
    /\ ppc' = "exited"
    /\ pExit' = status

\* run_cmd(cmd) at position ppc; on success control goes to after
PipeRun(cmd, outcome, after) ==
    /\ cmdLog' = Append(cmdLog, [cmd |-> cmd, outcome |-> outcome])
    /\ IF RunCmdRaises(outcome)
       THEN PipeExit(1)
       ELSE /\ ppc' = after
            /\ pExit' = pExit

InitPipe ==
    /\ ppc = "start"
    /\ skip_stt \in BOOLEAN
    /\ pSamplesIsDir \in BOOLEAN
    /\ audio_files = <<>>
    /\ out_dirs = <<>>
    /\ cmdLog = <<>>
    /\ pExit = None
    /\ AlignIdle
    /\ RefIdle
    /\ HypIdle
    /\ MainIdle
    /\ RerunIdle

\* the samples check, and find_audio_files unless --skip-stt
PipeStart ==
    /\ ppc = "start"
    /\ IF ~pSamplesIsDir
       THEN PipeExit(1) /\ UNCHANGED audio_files
       ELSE IF skip_stt
       THEN ppc' = "detect" /\ UNCHANGED <<audio_files, pExit>>
       ELSE \E raised \in BOOLEAN, n \in 0..MaxAudio :
               IF raised \/ n = 0
               THEN PipeExit(1) /\ UNCHANGED audio_files
               ELSE /\ audio_files' = [k \in 1..n |-> k]
                    /\ ppc' = "stt"
                    /\ UNCHANGED pExit
    /\ UNCHANGED <<skip_stt, pSamplesIsDir, out_dirs, cmdLog, notPipeVars>>

\* one iteration of the loop over audio_files
PipeStt ==
    /\ ppc = "stt"
    /\ Len(cmdLog) < Len(audio_files)
    /\ \E outcome \in Outcomes :
          PipeRun(SttCmds(audio_files)[Len(cmdLog) + 1], outcome,
                  IF Len(cmdLog) + 1 = Len(audio_files) THEN "detect" ELSE "stt")
    /\ UNCHANGED <<skip_stt, pSamplesIsDir, audio_files, out_dirs, notPipeVars>>

\* detect_output_dirs_recursive: a sorted list of distinct directories
PipeDetect ==
    /\ ppc = "detect"
    /\ \E n \in 0..MaxOutDirs :
          /\ out_dirs' = [k \in 1..n |-> k]
          /\ IF n = 0
             THEN PipeExit(1)
             ELSE ppc' = "downstream" /\ UNCHANGED pExit
    /\ UNCHANGED <<skip_stt, pSamplesIsDir, audio_files, cmdLog, notPipeVars>>

\* the next of the three commands of the loop over out_dirs
PipeDownstream ==
    /\ ppc = "downstream"
    /\ LET done == Len(cmdLog) - Len(audio_files)
           plan == DownstreamCmds(out_dirs)
       IN /\ done < Len(plan)
          /\ \E outcome \in Outcomes :
                PipeRun(plan[done + 1], outcome,
                        IF done + 1 = Len(plan) THEN "finished" ELSE "downstream")
    /\ UNCHANGED <<skip_stt, pSamplesIsDir, audio_files, out_dirs, notPipeVars>>

\* main returns
PipeFinish ==
    /\ ppc = "finished"
    /\ PipeExit(0)
    /\ UNCHANGED <<skip_stt, pSamplesIsDir, audio_files, out_dirs, cmdLog, notPipeVars>>

NextPipe == PipeStart \/ PipeStt \/ PipeDetect \/ PipeDownstream \/ PipeFinish

SpecPipe == InitPipe /\ [][NextPipe]_vars

\* =========================================================== properties
Returned == pc \in {"returned", "recorded"}

\* -------------------------------------------------- evaluate_pipeline.main
MaxMainSamples == 3
MaxMainOut == 3

MainSampleNames == {"x_ref.txt", "x_ref.token.txt", "x_y_ref.txt", "z_ref.txt", "x.wav"}
MainOutNames ==
    {"x_m1.txt", "x_m1.token.txt", "x_m2.txt", "x_y_m1.txt", "z_m1.txt", "x_times.txt"}
MainRefTokens == {<<"a", "b">>}
MainHypTokens == {<<"a", "b">>, <<"b">>}

\* sorted(names) for a set of names
RECURSIVE SortedList(_)
SortedList(names) ==
    IF names = {} THEN <<>>
    ELSE LET first == CHOOSE a \in names : \A b \in names \ {a} : StrLess(a, b)
         IN  <<first>> \o SortedList(names \ {first})

\* one pass of build_reference_map over the names its glob yields
RECURSIVE RefPass(_, _, _)
RefPass(d, pass, names) ==
    IF names = {} THEN d
    ELSE LET name == CHOOSE a \in names : TRUE
         IN  RefPass(RefRecord(d, pass, name), pass, names \ {name})

\* build_reference_map(samples_dir)
BuildReferenceMap(isDir, files) ==
    IF ~isDir THEN EmptyDict
    ELSE LET d1 == RefPass(EmptyDict, "pass1", Glob(files, PassPattern("pass1")))
             d2 == RefPass(d1, "pass2", Glob(files, PassPattern("pass2")))
         IN  RefPass(d2, "pass3", Glob(files, PassPattern("pass3")))

\* collect_hypotheses_by_model(out_dir, basename)
CollectHypothesesByModel(isDir, files, b) ==
    IF ~isDir THEN EmptyDict
    ELSE HypLoop(EmptyDict, b \o "_", SortedList(files))

\* sorted(hyps_by_model.items()): the (model_name, hyp_path) pairs by model name
SortedItems(d) ==
    LET keys == SortedList(DOMAIN d)
    IN  [k \in 1..Len(keys) |-> <<keys[k], d[keys[k]]>>]

\* the while loop of compute_measures_local, run to its end
RECURSIVE WalkAll(_, _, _, _)
WalkAll(t, rr, hh, w) ==
    IF WalkPending(w.i, w.j) THEN WalkAll(t, rr, hh, WalkStep(t, rr, hh, w)) ELSE w

\* compute_measures_local(ref_tokens, hyp_tokens)
ComputeMeasuresLocal(rr, hh) ==
    Measures(WalkAll(BuildTable(rr, hh), rr, hh,
                     [i |-> Len(rr), j |-> Len(hh), subs |-> 0, ins |-> 0, dels |-> 0,
                      hits |-> 0, alignment |-> <<>>]),
             Len(rr))

\* os.path.basename(path)
RECURSIVE PathBasename(_)
PathBasename(path) ==
    IF Contains(path, "/")
    THEN PathBasename(DropFirst(path, CHOOSE k \in 1..Len(path) : CharAt(path, k) = "/"))
    ELSE path

\* hyp_fname.rsplit(".txt", 1)[0]: cut at the last ".txt", if there is one
RsplitTxt(fname) ==
    LET at == {k \in 1..(Len(fname) - 3) : SubSeq(fname, k, k + 3) = ".txt"}
    IN  IF at = {} THEN fname
        ELSE SubSeq(fname, 1, (CHOOSE k \in at : \A l \in at : l <= k) - 1)

\* write_eval_and_alignment: the two file names it writes in out_dir
EvalFname(hyp_path) == RsplitTxt(PathBasename(hyp_path)) \o "_eval.txt"
AlignFname(hyp_path) == RsplitTxt(PathBasename(hyp_path)) \o "_alignment.csv"

SummaryFname == "evaluation_summary.csv"

\* a number below 10^width in decimal, zero-padded to width digits
RECURSIVE ZeroPadded(_, _)
ZeroPadded(n, width) ==
    IF width = 0 THEN ""
    ELSE ZeroPadded(n \div 10, width - 1) \o ToString(n % 10)

\* f"{wer:.6f}" for the quotient num/den, rounded at the sixth decimal
\* (no quotient within the bounds lies halfway between two such decimals)
FormatWer(w) ==
    LET scaled == (2 * w.num * 1000000 + w.den) \div (2 * w.den)
    IN  ToString(scaled \div 1000000) \o "." \o ZeroPadded(scaled % 1000000, 6)

\* read_tokens of the report write_eval_and_alignment writes: the text of
\* the f.write calls, split at whitespace
ReportTokens(ref_path, hyp_path, ms, ref_tokens, hyp_tokens) ==
    <<"Reference:", ref_path, "Hypothesis:", hyp_path,
      "WER:", FormatWer(ms.wer),
      "Substitutions:", ToString(ms.substitutions),
      "Insertions:", ToString(ms.insertions),
      "Deletions:", ToString(ms.deletions),
      "Hits:", ToString(ms.hits),
      "Truth", "length", "(tokens):", ToString(ms.truth_length),
      "===", "Reference", "Tokens", "===">> \o ref_tokens
    \o <<"===", "Hypothesis", "Tokens", "===">> \o hyp_tokens

\* mutant: the `if not ref_map` check left out
ConfigErrorNoRefCheck(outOk, samplesOk, rm) ==
    IF ~outOk THEN "no out dir"
    ELSE IF ~samplesOk THEN "no samples dir"
    ELSE ""

\* main, lines 203-214: the check that fails, "" when none does
ConfigError(outOk, samplesOk, rm) ==
    IF ~outOk THEN "no out dir"
    ELSE IF ~samplesOk THEN "no samples dir"
    ELSE IF DOMAIN rm = {} THEN "no reference"
    ELSE ""

\* mutant: the key leaves the model out
SummaryKeyBasenameOnly(b, model_name) == <<b, "">>

\* key = (basename, model_name)
SummaryKey(b, model_name) == <<b, model_name>>

\* mutant: `break` in the place of `continue`
AfterSkipBreak(rest) == <<>>

\* `continue`: the samples the outer loop goes on with after a skipped one
AfterSkip(rest) == rest

\* mutant: the summary block indented into the outer loop
SummaryDueInsideLoop(position, rest) == position = "samples"

\* the statements after the outer loop are reached when it is exhausted
SummaryDue(position, rest) == position = "samples" /\ rest = <<>>

\* (basename, model) < (basename, model) for tuples of str
KeyLess(a, b) == StrLess(a[1], b[1]) \/ (a[1] = b[1] /\ StrLess(a[2], b[2]))

\* sorted(summary_map.keys())
RECURSIVE SortedKeys(_)
SortedKeys(keys) ==
    IF keys = {} THEN <<>>
    ELSE LET first == CHOOSE a \in keys : \A b \in keys \ {a} : KeyLess(a, b)
         IN  <<first>> \o SortedKeys(keys \ {first})

\* the row main builds for a pair
MainRow(b, model_name, ms, ref_path, hyp_path) ==
    [basename |-> b, model |-> model_name, measures |-> SummaryRow(ms),
     reference |-> ref_path, hypothesis |-> hyp_path,
     eval_file |-> Join(OutDir, EvalFname(hyp_path)),
     alignment_csv |-> Join(OutDir, AlignFname(hyp_path))]

MainExit(status) ==
    /\ mpc' = "exited"
    /\ exitStatus' = status

InitMain ==
    /\ mpc = "start"
    /\ mSamplesIsDir \in BOOLEAN
    /\ mOutIsDir \in BOOLEAN
    /\ mSamples \in BoundedSubsets(MainSampleNames, MaxMainSamples)
    /\ mOut \in BoundedSubsets(MainOutNames, MaxMainOut)
    /\ mSamplesIsDir = FALSE => mSamples = {}
    /\ mOutIsDir = FALSE => mOut = {}
    /\ \E rt \in MainRefTokens, ht \in MainHypTokens :
          content = [path \in {Join(SamplesDir, f) : f \in mSamples}
                               \cup {Join(OutDir, f) : f \in mOut} |->
                        IF StartsWith(path, SamplesDir) THEN rt ELSE ht]
    /\ unreadable \in BoundedSubsets(DOMAIN content, 1)
    /\ ref_map = EmptyDict
    /\ todoSamples = <<>>
    /\ curSample = ""
    /\ todoModels = <<>>
    /\ summary_map = EmptyDict
    /\ summaryFile = None
    /\ summaryWrites = 0
    /\ stdout = <<>>
    /\ reports = <<>>
    /\ exitStatus = None
    /\ AlignIdle
    /\ RefIdle
    /\ HypIdle
    /\ PipeIdle
    /\ RerunIdle

\* lines 203-216: the directory checks, the reference map, summary_map = {}
MainStart ==
    /\ mpc = "start"
    /\ LET rm == BuildReferenceMap(mSamplesIsDir, mSamples)
           err == ConfigError(mOutIsDir, mSamplesIsDir, rm)
       IN  IF err # ""
           THEN /\ MainExit(1)
                /\ stdout' = Append(stdout, <<"ERROR", err>>)
                /\ UNCHANGED <<ref_map, todoSamples>>
           ELSE /\ ref_map' = rm
                /\ todoSamples' = SortedList(DOMAIN rm)
                /\ mpc' = "samples"
                /\ UNCHANGED <<stdout, exitStatus>>
    /\ UNCHANGED <<mSamplesIsDir, mOutIsDir, mSamples, mOut, unreadable, content,
                   curSample, todoModels, summary_map, summaryFile, summaryWrites,
                   reports, notMainVars>>

\* lines 218-223: the next basename; its hypotheses, or the warning and continue
MainNextSample ==
    /\ mpc = "samples"
    /\ todoSamples # <<>>
    /\ LET b == Head(todoSamples)
           hyps_by_model == CollectHypothesesByModel(mOutIsDir, mOut, b)
       IN  IF DOMAIN hyps_by_model = {}
           THEN /\ stdout' = Append(stdout, <<"Warning", b>>)
                /\ todoSamples' = AfterSkip(Tail(todoSamples))
                /\ UNCHANGED <<mpc, curSample, todoModels>>
           ELSE /\ curSample' = b
                /\ todoModels' = SortedItems(hyps_by_model)
                /\ todoSamples' = Tail(todoSamples)
                /\ mpc' = "pairs"
                /\ UNCHANGED stdout
    /\ UNCHANGED <<mSamplesIsDir, mOutIsDir, mSamples, mOut, unreadable, content,
                   ref_map, summary_map, summaryFile, summaryWrites, reports,
                   exitStatus, notMainVars>>

\* lines 224-236: the body of the inner loop for the next (model, path);
\* an open() that raises is caught nowhere and ends the process
MainEvalPair ==
    /\ mpc = "pairs"
    /\ LET model_name == Head(todoModels)[1]
           hyp_path == Head(todoModels)[2]
           ref_path == ref_map[curSample]
       IN  IF ref_path \in unreadable \/ hyp_path \in unreadable
           THEN /\ MainExit(1)
                /\ UNCHANGED <<mOut, content, todoModels, summary_map, stdout, reports>>
           ELSE LET ms == ComputeMeasuresLocal(content[ref_path], content[hyp_path])
                    key == SummaryKey(curSample, model_name)
                IN  /\ mOut' = mOut \cup {EvalFname(hyp_path), AlignFname(hyp_path)}
                    /\ content' = Put(content, Join(OutDir, EvalFname(hyp_path)),
                                      ReportTokens(ref_path, hyp_path, ms,
                                                   content[ref_path], content[hyp_path]))
                    /\ reports' = reports \o
                          <<[file |-> EvalFname(hyp_path), pair |-> <<curSample, model_name>>],
                            [file |-> AlignFname(hyp_path), pair |-> <<curSample, model_name>>]>>
                    /\ summary_map' = Put(summary_map, key,
                                          MainRow(curSample, model_name, ms, ref_path, hyp_path))
                    /\ stdout' = Append(stdout, <<"Evaluated", curSample, model_name>>)
                    /\ todoModels' = Tail(todoModels)
                    /\ mpc' = IF Tail(todoModels) = <<>> THEN "samples" ELSE "pairs"
                    /\ UNCHANGED exitStatus
    /\ UNCHANGED <<mSamplesIsDir, mOutIsDir, mSamples, unreadable, ref_map,
                   todoSamples, curSample, summaryFile, summaryWrites, notMainVars>>

\* lines 238-250: the summary file, rows by sorted key, and the normal return
MainWriteSummary ==
    /\ SummaryDue(mpc, todoSamples)
    /\ LET keys == SortedKeys(DOMAIN summary_map)
       IN  summaryFile' = [k \in 1..Len(keys) |-> summary_map[keys[k]]]
    /\ summaryWrites' = summaryWrites + 1
    /\ mOut' = mOut \cup {SummaryFname}
    /\ MainExit(0)
    /\ UNCHANGED <<mSamplesIsDir, mOutIsDir, mSamples, unreadable, content, ref_map,
                   todoSamples, curSample, todoModels, summary_map, stdout, reports,
                   notMainVars>>

NextMain == MainStart \/ MainNextSample \/ MainEvalPair \/ MainWriteSummary

SpecMain == InitMain /\ [][NextMain]_vars

\* ------------------------------------- evaluate_pipeline.py, run a second time
RerunSampleNames == {"x_ref.txt", "x_y_ref.txt", "x_y_ref.token.txt", "z_ref.txt"}
RerunOutNames == {"x_m1.txt", "x_m1.token.txt", "x_y.txt", "x_y_m1.txt", "z_m1.txt"}

\* the (basename, model_name, hyp_path) tuples a run has evaluated
Selections ==
    {<<key[1], key[2], summary_map[key].hypothesis>> : key \in DOMAIN summary_map}

InitRerun ==
    /\ mpc = "start"
    /\ mSamplesIsDir = TRUE
    /\ mOutIsDir = TRUE
    /\ mSamples \in BoundedSubsets(RerunSampleNames, MaxMainSamples)
    /\ mOut \in BoundedSubsets(RerunOutNames, MaxMainOut)
    /\ \E rt \in MainRefTokens, ht \in MainHypTokens :
          content = [path \in {Join(SamplesDir, f) : f \in mSamples}
                               \cup {Join(OutDir, f) : f \in mOut} |->
                        IF StartsWith(path, SamplesDir) THEN rt ELSE ht]
    /\ unreadable = {}
    /\ ref_map = EmptyDict
    /\ todoSamples = <<>>
    /\ curSample = ""
    /\ todoModels = <<>>
    /\ summary_map = EmptyDict
    /\ summaryFile = None
    /\ summaryWrites = 0
    /\ stdout = <<>>
    /\ reports = <<>>
    /\ exitStatus = None
    /\ run = 1
    /\ firstRun = {}
    /\ AlignIdle
    /\ RefIdle
    /\ HypIdle
    /\ PipeIdle

\* the script is started again after a run that ended normally: the
\* directories are as that run left them, main's locals are fresh
MainRerun ==
    /\ mpc = "exited"
    /\ exitStatus = 0
    /\ run = 1
    /\ run' = 2
    /\ firstRun' = Selections
    /\ mpc' = "start"
    /\ ref_map' = EmptyDict
    /\ todoSamples' = <<>>
    /\ curSample' = ""
    /\ todoModels' = <<>>
    /\ summary_map' = EmptyDict
    /\ stdout' = <<>>
    /\ exitStatus' = None
    /\ UNCHANGED <<mSamplesIsDir, mOutIsDir, mSamples, mOut, unreadable, content,
                   summaryFile, summaryWrites, reports, alignVars, refVars, hypVars,
                   pipeVars>>

NextRerun == NextMain \/ MainRerun

SpecRerun == InitRerun /\ [][NextRerun]_vars

\* ---- edit scripts, independently of the table
\* An edit script pairs some reference positions with hypothesis positions,
\* in order (kept or substituted tokens), deletes the other reference tokens
\* and inserts the other hypothesis tokens.
NthOf(S, k) == CHOOSE x \in S : Cardinality({y \in S : y <= x}) = k

EditScripts(rr, hh) ==
    {sc \in (SUBSET (1..Len(rr))) \X (SUBSET (1..Len(hh))) :
        Cardinality(sc[1]) = Cardinality(sc[2])}

ScriptCost(rr, hh, sc) ==
    LET k == Cardinality(sc[1])
    IN  (Len(rr) - k) + (Len(hh) - k)
        + Cardinality({t \in 1..k : rr[NthOf(sc[1], t)] # hh[NthOf(sc[2], t)]})

\* C1: the errors counted by the walk equal dp[n][m], and dp[n][m] is the
\* least cost of any edit script turning r into h: some script has that
\* cost and none has less.
C1_TotalIsMinimumEdit ==
    Returned =>
        LET total == TotalErrors(measures)
        IN  /\ total = dp[Len(r)][Len(h)]
            /\ \E sc \in EditScripts(r, h) : ScriptCost(r, h, sc) = total
            /\ \A sc \in EditScripts(r, h) : ScriptCost(r, h, sc) >= total

C1_Witness ==
    /\ pc = "returned"
    /\ TotalErrors(measures) = 2
    /\ measures.hits >= 1
    /\ Len(r) # Len(h)

\* C2: hits + substitutions + deletions is the reference length (which is
\* truth_length) and hits + substitutions + insertions the hypothesis length.
C2_CountsCoverBothSequences ==
    Returned =>
        /\ measures.hits + measures.substitutions + measures.deletions = Len(r)
        /\ measures.truth_length = Len(r)
        /\ measures.hits + measures.substitutions + measures.insertions = Len(h)

C2_Witness ==
    /\ pc = "returned"
    /\ measures.hits >= 1
    /\ measures.substitutions >= 1
    /\ measures.insertions >= 1

\* ---- the preference order of the claim, read off the table
MatchOptimal(a, b) ==
    a > 0 /\ b > 0 /\ r[a] = h[b] /\ dp[a][b] = dp[a-1][b-1]
InsertionOptimal(a, b) == b > 0 /\ dp[a][b] = dp[a][b-1] + 1
DeletionOptimal(a, b) == a > 0 /\ dp[a][b] = dp[a-1][b] + 1

PreferredOp(a, b) ==
    IF MatchOptimal(a, b) THEN "OK"
    ELSE IF InsertionOptimal(a, b) THEN "I"
    ELSE IF DeletionOptimal(a, b) THEN "D"
    ELSE "S"

LastEntry(al) == al[Len(al)]

\* C3: every iteration of the backward walk, at its cell (i, j), emits the
\* operation the order match > insertion > deletion > substitution selects
\* and moves accordingly; a substitution is emitted only where neither an
\* insertion nor a deletion is cost-optimal.
C3_WalkFollowsPreferenceOrder ==
    [][(pc = "walk" /\ WalkPending(i, j)) =>
         /\ Len(alignment') = Len(alignment) + 1
         /\ LET op == LastEntry(alignment')[3]
            IN  /\ op = PreferredOp(i, j)
                /\ op = "S" => ~InsertionOptimal(i, j) /\ ~DeletionOptimal(i, j)
                /\ op \in {"OK", "S"} => i' = i - 1 /\ j' = j - 1
                /\ op = "I" => i' = i /\ j' = j - 1
                /\ op = "D" => i' = i - 1 /\ j' = j
      ]_vars

\* an insertion was emitted at a cell where a substitution was optimal too
C3_Witness ==
    /\ pc = "walk"
    /\ alignment # <<>>
    /\ LastEntry(alignment)[3] = "I"
    /\ i > 0
    /\ r[i] # h[j+1]
    /\ dp[i][j+1] = dp[i-1][j] + 1

\* ---- replaying a trace
RECURSIVE RefSide(_)
RefSide(al) ==
    IF al = <<>> THEN <<>>
    ELSE IF Head(al)[3] = "I" THEN RefSide(Tail(al))
    ELSE <<Head(al)[1]>> \o RefSide(Tail(al))

RECURSIVE HypSide(_)
HypSide(al) ==
    IF al = <<>> THEN <<>>
    ELSE IF Head(al)[3] = "D" THEN HypSide(Tail(al))
    ELSE <<Head(al)[2]>> \o HypSide(Tail(al))

\* C4: the returned trace has hits + substitutions + insertions + deletions
\* entries; its ref-side tokens, insertions skipped, are r in order and its
\* hyp-side tokens, deletions skipped, are h in order.
C4_TraceReplaysBothSequences ==
    Returned =>
        /\ Len(measures.alignment) =
              measures.hits + measures.substitutions
              + measures.insertions + measures.deletions
        /\ RefSide(measures.alignment) = r
        /\ HypSide(measures.alignment) = h

C4_Witness ==
    /\ pc = "returned"
    /\ Len(r) = 3 /\ r[1] # r[3]
    /\ Len(h) = 2 /\ h[1] # h[2]
    /\ measures.deletions >= 1
    /\ measures.substitutions >= 1

\* C5: the row's wer is total_errors / truth_length when truth_length > 0
\* and 0.0 when truth_length = 0, whatever the hypothesis; the row's
\* total_errors is substitutions + insertions + deletions.
C5_WerIsErrorsOverTruthLength ==
    pc = "recorded" =>
        /\ row.total_errors =
              measures.substitutions + measures.insertions + measures.deletions
        /\ row.wer = measures.wer
        /\ row.wer.den > 0
        /\ row.truth_length > 0 =>
              row.wer.num * row.truth_length = row.total_errors * row.wer.den
        /\ row.truth_length = 0 => row.wer.num = 0

C5_Witness ==
    /\ pc = "recorded"
    /\ row.truth_length = 2
    /\ row.total_errors = 3
    /\ row.insertions >= 1

\* C6: aligning a sequence with itself gives no substitution, insertion or
\* deletion, hits = len(R), wer = 0.0 and a trace of OK entries only.
C6_SelfAlignmentIsAllHits ==
    (Returned /\ r = h) =>
        /\ measures.substitutions = 0
        /\ measures.insertions = 0
        /\ measures.deletions = 0
        /\ measures.hits = Len(r)
        /\ measures.wer.num = 0 /\ measures.wer.den > 0
        /\ Len(measures.alignment) = Len(r)
        /\ \A k \in 1..Len(measures.alignment) : measures.alignment[k][3] = "OK"

C6_Witness ==
    /\ pc = "returned"
    /\ r = h
    /\ Len(r) = 3
    /\ r[1] # r[2]

\* C7: an empty reference with m >= 1 hypothesis tokens gives insertions = m,
\* hits = substitutions = deletions = 0, truth_length = 0 and wer = 0.0.
C7_EmptyReferenceIsAllInsertions ==
    (Returned /\ Len(r) = 0 /\ Len(h) >= 1) =>
        /\ measures.insertions = Len(h)
        /\ measures.hits = 0
        /\ measures.substitutions = 0
        /\ measures.deletions = 0
        /\ measures.truth_length = 0
        /\ measures.wer = [num |-> 0, den |-> 1]

C7_Witness ==
    /\ pc = "returned"
    /\ Len(r) = 0
    /\ Len(h) = 2
    /\ measures.insertions = 2

\* ---- the reference variants of a sample identifier, by priority
RefVariantNames(b) ==
    <<b \o "_ref.token.txt", b \o "_reference.token.txt", b \o "_ref.txt">>

\* the variants of b among files, highest priority first
VariantsPresent(files, b) ==
    SelectSeq(RefVariantNames(b), LAMBDA name : name \in files)

\* the sample identifiers that have a variant a glob can see
VisibleSamples(files) ==
    {DropLast(f, Len(suf)) : <<f, suf>> \in
        {fs \in files \X {"_ref.token.txt", "_reference.token.txt", "_ref.txt"} :
            EndsWith(fs[1], fs[2]) /\ ~StartsWith(fs[1], ".")}}

\* C8: in every state of build_reference_map each recorded sample has one
\* reference, the highest-priority variant the directory holds for it; at
\* return every sample with a variant has its entry; and no step, in whatever
\* order the globs yield the names, replaces or drops a recorded entry.
C8_HighestPriorityReferenceKept ==
    /\ [](\A b \in DOMAIN refs :
            /\ VariantsPresent(samplesFiles, b) # <<>>
            /\ refs[b] = Join(SamplesDir, Head(VariantsPresent(samplesFiles, b))))
    /\ [](rpc = "done" => DOMAIN refs = VisibleSamples(samplesFiles))
    /\ [][\A b \in DOMAIN refs : b \in DOMAIN refs' /\ refs'[b] = refs[b]]_vars

C8_Witness ==
    /\ rpc = "done"
    /\ {"x_ref.token.txt", "x_reference.token.txt", "x_ref.txt",
         "y_reference.token.txt", "y_ref.txt"} \subseteq samplesFiles
    /\ DOMAIN refs = {"x", "y"}
    /\ refs["x"] = "samples/x_ref.token.txt"
    /\ refs["y"] = "samples/y_reference.token.txt"

\* ---- the artifacts of a model, by name
TokenizedName(s, m) == s \o "_" \o m \o ".token.txt"
RawName(s, m) == s \o "_" \o m \o ".txt"

\* the model identifiers the names of a directory can stand for
NamedModels(files, s) ==
    {DropLast(DropFirst(f, Len(s) + 1), Len(".token.txt")) :
        f \in {g \in files : StartsWith(g, s \o "_") /\ EndsWith(g, ".token.txt")
                              /\ Len(g) >= Len(s) + 1 + Len(".token.txt")}}
    \cup
    {DropLast(DropFirst(f, Len(s) + 1), Len(".txt")) :
        f \in {g \in files : StartsWith(g, s \o "_") /\ EndsWith(g, ".txt")
                              /\ Len(g) >= Len(s) + 1 + Len(".txt")}}

\* excluded: a reference file, or the name of a timing/eval artifact
ExcludedArtifact(name, m) == IsRefFile(name) \/ TimesOrEval(Lower(m))

EligibleTokenized(files, s, m) ==
    TokenizedName(s, m) \in files /\ ~ExcludedArtifact(TokenizedName(s, m), m)

\* a name ending in .token.txt is the tokenized artifact of a model, never
\* the raw artifact of a model called "<m>.token"
EligibleRaw(files, s, m) ==
    /\ RawName(s, m) \in files
    /\ ~EndsWith(RawName(s, m), ".token.txt")
    /\ ~ExcludedArtifact(RawName(s, m), m)

\* C9: collect_hypotheses_by_model returns an entry for exactly the models
\* that have an eligible tokenized or raw artifact of the sample, and the
\* entry is the tokenized artifact when there is one, the raw one otherwise.
C9_OneArtifactPerModelTokenizedFirst ==
    hpc = "done" =>
        /\ DOMAIN candidates =
              {m \in NamedModels(outFiles, basename) :
                  \/ EligibleTokenized(outFiles, basename, m)
                  \/ EligibleRaw(outFiles, basename, m)}
        /\ \A m \in DOMAIN candidates :
              candidates[m] =
                  IF EligibleTokenized(outFiles, basename, m)
                  THEN Join(OutDir, TokenizedName(basename, m))
                  ELSE Join(OutDir, RawName(basename, m))

C9_Witness ==
    /\ hpc = "done"
    /\ basename = "x"
    /\ outFiles = {"x_m1.txt", "x_m1.token.txt", "x_m2.txt"}
    /\ DOMAIN candidates = {"m1", "m2"}
    /\ candidates["m1"] = "out/x_m1.token.txt"
    /\ candidates["m2"] = "out/x_m2.txt"

\* C10: the map the selection rule builds does not depend on the order the
\* names are processed in: the loop run over the listing in the order the
\* OS gave it yields the map the code returns after sorting.
C10_SelectionIsOrderIndependent ==
    (hpc = "done" /\ outIsDir) =>
        HypLoop(EmptyDict, basename \o "_", listing) = candidates

\* the raw artifact of m1 listed before its tokenized artifact
C10_Witness ==
    /\ hpc = "done"
    /\ basename = "x"
    /\ listing # Sorted(listing)
    /\ \E a, b \in DOMAIN listing :
          a < b /\ listing[a] = "x_m1.txt" /\ listing[b] = "x_m1.token.txt"
    /\ "m1" \in DOMAIN candidates
    /\ candidates["m1"] = "out/x_m1.token.txt"

\* ---- timing and evaluation artifacts, by name
\* the name carries a reserved marker, compared case-insensitively
TimingOrEvalName(name) ==
    Contains(Lower(name), "_times") \/ Contains(Lower(name), "_eval")

\* C11: no artifact whose name carries a timing/eval marker (_times, _eval,
\* in any case) is the selected hypothesis of any model.
C11_NoTimingOrEvalArtifactSelected ==
    hpc = "done" =>
        \A m \in DOMAIN candidates : ~TimingOrEvalName(PathBasename(candidates[m]))

\* ---- the end of the backtrace
\* C19: every iteration of the backtrace loop lowers i + j by 1 or 2 and
\* leaves i and j non-negative; the iterations made so far plus i + j never
\* exceed len(r) + len(h), so the loop ends after at most that many
\* iterations; while the walk is on, a step can always be taken; and the
\* function returns with the cursor at (0, 0).
C19_BacktraceTerminates ==
    /\ [][(pc = "walk" /\ WalkPending(i, j)) =>
            /\ (i' + j') \in {i + j - 1, i + j - 2}
            /\ i' >= 0 /\ j' >= 0]_vars
    /\ [](pc = "walk" =>
            /\ i \in 0..Len(r) /\ j \in 0..Len(h)
            /\ Len(alignment) + i + j <= Len(r) + Len(h)
            /\ ENABLED Next)
    /\ [](Returned => (i = 0 /\ j = 0 /\ Len(measures.alignment) <= Len(r) + Len(h)))

C19_Witness ==
    /\ pc = "returned"
    /\ i = 0 /\ j = 0
    /\ Len(r) = 3 /\ Len(h) = 3
    /\ Len(measures.alignment) = 4

\* ---- the orchestrator's plan
\* the commands of a run in which none fails, as far as they are known
Plan ==
    (IF skip_stt THEN <<>> ELSE SttCmds(audio_files)) \o DownstreamCmds(out_dirs)

\* C20: the commands started are a prefix of the fixed plan (the STT
\* invocations, none under --skip-stt, then extract, normalize, evaluate for
\* each detected directory); every command before a started one succeeded;
\* a failing command is the last one started and the process exits with 1
C20_CommandsInOrderStopAtFirstFailure ==
    /\ Len(cmdLog) <= Len(Plan)
    /\ \A k \in 1..Len(cmdLog) : cmdLog[k].cmd = Plan[k]
    /\ \A k \in 1..(Len(cmdLog) - 1) : cmdLog[k].outcome = "exit 0"
    /\ (cmdLog # <<>> /\ cmdLog[Len(cmdLog)].outcome # "exit 0") =>
           (ppc = "exited" /\ pExit = 1)
    /\ (skip_stt /\ cmdLog # <<>>) => cmdLog[1].cmd.script = "extract_transcripts.py"
    /\ (ppc = "exited" /\ pExit = 0) => (Len(cmdLog) = Len(Plan) /\ out_dirs # <<>>)

C20_Witness ==
    /\ ppc = "exited" /\ pExit = 1
    /\ ~skip_stt
    /\ Len(audio_files) = MaxAudio
    /\ Len(out_dirs) = 2
    /\ Len(cmdLog) = MaxAudio + 5
    /\ cmdLog[Len(cmdLog)].cmd = Cmd("normalize_tokenize.py", 2)
    /\ cmdLog[Len(cmdLog)].outcome = "exit 1"
\* ---- a run of evaluate_pipeline.main, seen from outside
\* the names out_dir held when the run began
InitialOut == {f \in MainOutNames : Join(OutDir, f) \in DOMAIN content}

\* the (sample, model) pairs the run has to evaluate
Worklist ==
    UNION {{<<b, m>> : m \in DOMAIN CollectHypothesesByModel(TRUE, InitialOut, b)} :
           b \in DOMAIN ref_map}

HypPathOf(pair) == CollectHypothesesByModel(TRUE, InitialOut, pair[1])[pair[2]]

PairReadable(pair) ==
    ref_map[pair[1]] \notin unreadable /\ HypPathOf(pair) \notin unreadable

\* the pairs an "Evaluated:" line was printed for
EvaluatedPairs ==
    {<<stdout[k][2], stdout[k][3]>> : k \in {l \in DOMAIN stdout : stdout[l][1] = "Evaluated"}}

\* the samples a "Warning: no hypothesis files" line was printed for
WarnedSamples ==
    {stdout[k][2] : k \in {l \in DOMAIN stdout : stdout[l][1] = "Warning"}}

MainExited == mpc = "exited"

\* evaluation_summary.csv has been written
SummaryWritten == summaryWrites > 0

\* a fatal configuration error, read off the directories
NoReferenceFile ==
    \A f \in mSamples :
        ~(EndsWith(f, "_ref.token.txt") \/ EndsWith(f, "_reference.token.txt")
          \/ EndsWith(f, "_ref.txt"))
FatalConfiguration == ~mOutIsDir \/ ~mSamplesIsDir \/ NoReferenceFile

\* C12: when the run has ended after starting work, a pair that could not be
\* read is the only one missing: the summary is written and every readable
\* pair of the worklist has its row
C12_PairFailureSkipsOnlyThatPair ==
    (MainExited /\ ~FatalConfiguration) =>
        /\ SummaryWritten
        /\ \A pair \in Worklist : PairReadable(pair) => pair \in DOMAIN summary_map

\* C13: the exit status is non-zero exactly for the fatal configuration
\* errors; a run with failing pairs or samples without hypotheses ends with 0
C13_NonZeroExitOnlyForConfigurationErrors ==
    MainExited => (exitStatus # 0 <=> FatalConfiguration)

\* C14: a missing output directory, a missing samples directory or an empty
\* reference map ends the run with a non-zero status before any work: no pair
\* evaluated, no report, trace or summary written
C14_ConfigurationErrorAbortsBeforeAnyWork ==
    (FatalConfiguration /\ mpc # "start") =>
        /\ MainExited /\ exitStatus # 0
        /\ EvaluatedPairs = {} /\ summary_map = EmptyDict
        /\ reports = <<>> /\ mOut = InitialOut
        /\ ~SummaryWritten

C14_Witness ==
    /\ MainExited /\ exitStatus = 1
    /\ mOutIsDir /\ mSamplesIsDir
    /\ mSamples = {"x.wav"}
    /\ "x_m1.txt" \in mOut
    /\ stdout = <<(<<"ERROR", "no reference">>)>>
\* ---- samples without hypotheses
\* no name of out_dir is an artifact of the sample
HasNoHypotheses(b) == DOMAIN CollectHypothesesByModel(mOutIsDir, mOut, b) = {}

RowsOf(b) == {key \in DOMAIN summary_map : key[1] = b}

\* C15: a sample without hypothesis artifacts is skipped with a warning and
\* gets no summary row; the step that skips it leaves the rows alone and hands
\* control to the next sample, so that every other sample is processed and
\* the summary written at the end covers all of them
C15_SampleWithoutHypothesesIsSkipped ==
    /\ [][(mpc = "samples" /\ todoSamples # <<>> /\ HasNoHypotheses(Head(todoSamples))) =>
            /\ stdout' = Append(stdout, <<"Warning", Head(todoSamples)>>)
            /\ summary_map' = summary_map
            /\ todoSamples' = Tail(todoSamples)
            /\ mpc' = "samples"
            /\ exitStatus' = exitStatus]_vars
    /\ [](\A b \in WarnedSamples : RowsOf(b) = {})
    /\ [](SummaryWritten =>
            /\ \A b \in DOMAIN ref_map : b \in WarnedSamples \/ RowsOf(b) # {}
            /\ \A pair \in Worklist : pair \in DOMAIN summary_map
            /\ Len(summaryFile) = Cardinality(Worklist))

C15_Witness ==
    /\ MainExited /\ exitStatus = 0
    /\ SummaryWritten
    /\ stdout = <<(<<"Warning", "x">>), (<<"Evaluated", "z", "m1">>)>>
    /\ DOMAIN summary_map = {<<"z", "m1">>}
\* ---- the summary
RowKey(rw) == <<rw.basename, rw.model>>

EvaluatedLines == {k \in DOMAIN stdout : stdout[k][1] = "Evaluated"}

\* C16: the summary holds exactly one row per evaluated pair and nothing
\* else, the rows of the file ascend by (basename, model), and a row once
\* recorded is never overwritten, changed or removed
C16_OneRowPerEvaluatedPairInOrder ==
    /\ [](/\ DOMAIN summary_map = EvaluatedPairs
          /\ Cardinality(DOMAIN summary_map) = Cardinality(EvaluatedLines)
          /\ \A key \in DOMAIN summary_map : RowKey(summary_map[key]) = key)
    /\ [](SummaryWritten =>
            /\ Len(summaryFile) = Cardinality(EvaluatedPairs)
            /\ {RowKey(summaryFile[k]) : k \in DOMAIN summaryFile} = EvaluatedPairs
            /\ \A k \in DOMAIN summaryFile : summaryFile[k] = summary_map[RowKey(summaryFile[k])]
            /\ \A k \in 1..(Len(summaryFile) - 1) :
                   \/ StrLess(summaryFile[k].basename, summaryFile[k + 1].basename)
                   \/ /\ summaryFile[k].basename = summaryFile[k + 1].basename
                      /\ StrLess(summaryFile[k].model, summaryFile[k + 1].model))
    /\ [][\A key \in DOMAIN summary_map :
              key \in DOMAIN summary_map' /\ summary_map'[key] = summary_map[key]]_vars

C16_Witness ==
    /\ SummaryWritten
    /\ Len(summaryFile) = 3
    /\ RowKey(summaryFile[1]) = <<"x", "m1">>
    /\ RowKey(summaryFile[2]) = <<"x", "m2">>
    /\ RowKey(summaryFile[3]) = <<"z", "m1">>

\* ---- the files of a pair
\* C17: two distinct pairs of one run use different hypothesis artifacts and
\* write different report and trace files: no file is written for two pairs
C17_PairsAreIndependent ==
    /\ \A a, b \in DOMAIN reports :
           reports[a].file = reports[b].file => reports[a].pair = reports[b].pair
    /\ \A k1, k2 \in DOMAIN summary_map :
           k1 # k2 => summary_map[k1].hypothesis # summary_map[k2].hypothesis

\* ---- the summary file
ReportFiles == {reports[k].file : k \in DOMAIN reports}

\* C18: the summary file is written at most once, and only when no sample
\* and no pair is pending, every pair of the worklist has been evaluated and
\* its report and trace are written; a run that ends normally has written it
\* exactly once
C18_SummaryWrittenOnceAfterAllPairs ==
    /\ summaryWrites <= 1
    /\ SummaryWritten =>
          /\ MainExited
          /\ todoSamples = <<>> /\ todoModels = <<>>
          /\ EvaluatedPairs = Worklist
          /\ \A pair \in Worklist :
                 /\ EvalFname(HypPathOf(pair)) \in ReportFiles
                 /\ AlignFname(HypPathOf(pair)) \in ReportFiles
          /\ SummaryFname \in mOut
    /\ ~SummaryWritten => SummaryFname \notin mOut
    /\ (MainExited /\ exitStatus = 0) => summaryWrites = 1

C18_Witness ==
    /\ summaryWrites = 1
    /\ EvaluatedPairs = {<<"x", "m1">>, <<"z", "m1">>}
    /\ Len(reports) = 4
    /\ SummaryFname \in mOut

\* ---- the guards of the backtrace
SubstitutionOptimal(a, b) == a > 0 /\ b > 0 /\ dp[a][b] = dp[a-1][b-1] + 1

\* C21: at every cell other than (0, 0) the backward walk visits, one of the
\* four guarded conditions (match, insertion, deletion, substitution) holds,
\* so the safety fallback is never taken, and the operation each iteration
\* emits is the one its own dp equality justifies
C21_SafetyFallbackUnreachable ==
    /\ []((pc = "walk" /\ WalkPending(i, j)) =>
            /\ \/ MatchOptimal(i, j)
               \/ InsertionOptimal(i, j)
               \/ DeletionOptimal(i, j)
               \/ SubstitutionOptimal(i, j)
            /\ WalkBranch(dp, r, h, i, j) \in {"OK", "I", "D", "S"})
    /\ [][(pc = "walk" /\ WalkPending(i, j)) =>
            LET op == LastEntry(alignment')[3]
            IN  /\ op = "OK" => MatchOptimal(i, j)
                /\ op = "I" => InsertionOptimal(i, j)
                /\ op = "D" => DeletionOptimal(i, j)
                /\ op = "S" => SubstitutionOptimal(i, j)]_vars

\* the walk has moved and stands at a cell where only the last of the four
\* guards, the substitution, holds
C21_Witness ==
    /\ pc = "walk"
    /\ alignment # <<>>
    /\ i > 0 /\ j > 0
    /\ ~MatchOptimal(i, j) /\ ~InsertionOptimal(i, j) /\ ~DeletionOptimal(i, j)
    /\ SubstitutionOptimal(i, j)

\* ---- equal tokens
EqualTokens(a, b) == a > 0 /\ b > 0 /\ r[a] = h[b]

\* the entries of a trace tagged OK carry equal tokens, those tagged S differ
TagsAgreeWithTokens(al) ==
    \A k \in DOMAIN al :
        /\ al[k][3] = "OK" => al[k][1] = al[k][2]
        /\ al[k][3] = "S" => al[k][1] # al[k][2]

\* C22: at a visited cell (i, j) with i, j > 0 and equal tokens the equality
\* dp[i][j] = dp[i-1][j-1] holds and the walk emits a match, moving
\* diagonally; hence every OK entry of the trace has equal ref and hyp
\* tokens and every S entry has different ones
C22_EqualTokensAlwaysMatch ==
    /\ []((pc = "walk" /\ EqualTokens(i, j)) => dp[i][j] = dp[i-1][j-1])
    /\ [][(pc = "walk" /\ EqualTokens(i, j)) =>
            /\ alignment' = Append(alignment, <<r[i], h[j], "OK">>)
            /\ i' = i - 1 /\ j' = j - 1
            /\ hits' = hits + 1]_vars
    /\ [](TagsAgreeWithTokens(alignment))
    /\ [](Returned => TagsAgreeWithTokens(measures.alignment))

\* the walk began with a match at a cell where an insertion was cost-optimal
\* too, and has emitted a substitution since
C22_Witness ==
    /\ pc = "walk"
    /\ Len(alignment) > 1
    /\ alignment[1][3] = "OK"
    /\ dp[Len(r)][Len(h)] = dp[Len(r)][Len(h) - 1] + 1
    /\ \E k \in DOMAIN alignment : alignment[k][3] = "S"

\* ---- a second run over the same directories
\* the files the evaluation has written into out_dir
EvaluationFiles == ReportFiles \cup (IF SummaryWritten THEN {SummaryFname} ELSE {})

SecondRunEnded == run = 2 /\ MainExited /\ exitStatus = 0

\* C23: a second run over the directories the first run left selects the
\* (sample, model, hypothesis) tuples of the first run, and no file the
\* evaluation has written is the hypothesis of any evaluated pair
C23_RerunSelectsSameTuples ==
    /\ SecondRunEnded => Selections = firstRun
    /\ \A key \in DOMAIN summary_map :
           PathBasename(summary_map[key].hypothesis) \notin EvaluationFiles
====
